---- MODULE Spec2Model ----
(***************************************************************************)
(* Model of scripts/compose_scenes.py: the scene compositor               *)
(* (compose_scene), the reel merger (merge_scenes) and the driver (main).  *)
(*                                                                         *)
(* Times are exact multiples of one tick = 0.1 ms, so 0.2 s = 2000 ticks.  *)
(* The probed durations of the model (Durations, DefaultDuration) are      *)
(* values for which the double arithmetic of lines 78 and 82 yields the    *)
(* same millisecond delays as the exact arithmetic used here, for every    *)
(* dialogue list within the bounds.                                        *)
(*                                                                         *)
(* A file on disk is in one of four states:                                *)
(*   "absent"   no file at that path                                       *)
(*   "stale"    a file left there before this run started                  *)
(*   "partial"  a file left by an ffmpeg invocation of this run that       *)
(*              ended with a non-zero exit status                          *)
(*   "fresh"    a file written by an ffmpeg invocation of this run that    *)
(*              ended with exit status 0                                   *)
(*                                                                         *)
(* Nothing in the program catches an exception outside get_media_duration: *)
(* a print that raises (stdout closed, full, or unable to encode the       *)
(* text), a subprocess.run that raises (ffmpeg cannot be started, or with  *)
(* text=True its output cannot be decoded) and a file that cannot be       *)
(* written each end the run with a traceback and exit status 1.  A fault   *)
(* is named after the line that raises.  However the run ends, the         *)
(* interpreter flushes the buffered stdout on its way out; when that       *)
(* fails the exit status is 120.                                           *)
(***************************************************************************)
EXTENDS Integers, Sequences, FiniteSets, TLC

\* Bounds of the model.
MaxScenes == 2
MaxClips == 2

\* int(current_time*1000): ticks per millisecond.
TicksPerMs == 10
\* current_time = 0.2
LeadIn == 2000
\* gap = 0.3
Gap == 3000
\* return 5.0  # Default duration
DefaultDuration == 50000
\* ffprobe gave nothing float() can parse (the except branch is taken).
ProbeFailed == -1
\* Durations ffprobe reports in the model: 0.4 ms, 2.0 s, 3.0 s.
Durations == {4, 20000, 30000}
\* Python's None, as a return value and as an entry of composed_videos.
None == 0
\* Exit statuses of an external ffmpeg invocation.
ExitCodes == {0, 1}

\* str(output_path) of scene scene_id: the path is a function of scene_id alone.
ComposedPath(scene_id) == scene_id
\* str(FINAL_DIR / "final_reel.mp4")
FinalReelPath == "outputs/final/final_reel.mp4"

\* One entry of audio_files: whether Path(audio_path).exists(), and what
\* ffprobe reports for it.  A missing file cannot be probed.
Clips ==
    { c \in [exists : BOOLEAN, probe : Durations \cup {ProbeFailed}] :
        ~c.exists => c.probe = ProbeFailed }
ClipLists == UNION { [1..n -> Clips] : n \in 0..MaxClips }

VideoInput == [kind |-> "video", idx |-> 0]
AudioInput(idx) == [kind |-> "audio", idx |-> idx]

get_media_duration(clip) ==
    IF clip.probe = ProbeFailed THEN DefaultDuration ELSE clip.probe

\* int(current_time*1000): truncation to whole milliseconds.
ToMs(t) == t \div TicksPerMs

\* The state of the loop of lines 64-67 before the first iteration.
InitLoop ==
    [ audio_inputs |-> <<VideoInput>>,
      filter_parts |-> <<>>,
      starts       |-> <<>>,
      probes       |-> <<VideoInput>>,
      current_time |-> LeadIn ]

\* The delay operation of line 78: reads stream [audio_idx:a], writes [a{idx}].
DelayFilter(idx, current_time) ==
    [ src |-> idx + 1, delay |-> ToMs(current_time), out |-> idx ]

\* Advance without the gap between dialogues.
AdvanceNoGap(current_time, audio_duration) == current_time + audio_duration

\* current_time += audio_duration + gap
Advance(current_time, audio_duration) == current_time + audio_duration + Gap

\* LoopBody without the continue of line 72: a missing clip is probed (the
\* probe fails) and the cursor moves past it.
LoopBodySlot(audio_files, idx, st) ==
    LET audio_info == audio_files[idx + 1] IN
    IF ~audio_info.exists
    THEN [ st EXCEPT
             !.probes = Append(@, AudioInput(idx)),
             !.current_time = Advance(@, get_media_duration(audio_info)) ]
    ELSE [ audio_inputs |-> Append(st.audio_inputs, AudioInput(idx)),
           filter_parts |-> Append(st.filter_parts, DelayFilter(idx, st.current_time)),
           starts       |-> Append(st.starts, st.current_time),
           probes       |-> Append(st.probes, AudioInput(idx)),
           current_time |-> Advance(st.current_time, get_media_duration(audio_info)) ]

\* One iteration of the loop (lines 69-82), idx counted from 0 as enumerate does.
\* starts and probes record the cursor at line 78 and the files probed.
LoopBody(audio_files, idx, st) ==
    LET audio_info == audio_files[idx + 1] IN
    IF ~audio_info.exists
    THEN st
    ELSE [ audio_inputs |-> Append(st.audio_inputs, AudioInput(idx)),
           filter_parts |-> Append(st.filter_parts, DelayFilter(idx, st.current_time)),
           starts       |-> Append(st.starts, st.current_time),
           probes       |-> Append(st.probes, AudioInput(idx)),
           current_time |-> Advance(st.current_time, get_media_duration(audio_info)) ]

RECURSIVE Loop(_, _, _)
Loop(audio_files, idx, st) ==
    IF idx >= Len(audio_files)
    THEN st
    ELSE Loop(audio_files, idx + 1, LoopBody(audio_files, idx, st))

\* The command of lines 94-110: the inputs, the delay operations and the
\* labels the final amix consumes.
NoCmd == [ audio_inputs |-> <<>>, filter_parts |-> <<>>, audio_labels |-> <<>>, inputs |-> 0 ]
MixCmd(st) ==
    [ audio_inputs |-> st.audio_inputs,
      filter_parts |-> st.filter_parts,
      audio_labels |-> [ i \in 1..Len(st.filter_parts) |-> i - 1 ],
      inputs       |-> Len(st.filter_parts) ]

\* ffmpeg accepts a filter graph only if every stream it reads is one of the
\* inputs given, every label amix consumes is produced, and every label
\* produced is consumed.
WellFormed(cmd) ==
    /\ \A k \in 1..Len(cmd.filter_parts) :
          /\ cmd.filter_parts[k].src < Len(cmd.audio_inputs)
          /\ \E j \in 1..Len(cmd.audio_labels) :
                cmd.audio_labels[j] = cmd.filter_parts[k].out
    /\ \A j \in 1..Len(cmd.audio_labels) :
          \E k \in 1..Len(cmd.filter_parts) :
                cmd.filter_parts[k].out = cmd.audio_labels[j]

\* Path(video_path).exists()  (line 45)
VideoFound(video_exists) == video_exists

\* Lines 45-110 of compose_scene: what it does before its first encode.
\* next is "append" when it returns at once, "passthrough" when it takes the
\* video-only path, "mix" when it runs the mix encode.
ComposePlan(video_exists, audio_files) ==
    IF ~VideoFound(video_exists)
    THEN [ next |-> "append", probes |-> <<>>, starts |-> <<>>, cmd |-> NoCmd ]
    ELSE IF audio_files = <<>>
    THEN [ next |-> "passthrough", probes |-> <<>>, starts |-> <<>>, cmd |-> NoCmd ]
    ELSE
      LET st == Loop(audio_files, 0, InitLoop) IN
      IF st.filter_parts = <<>>
      THEN [ next |-> "passthrough", probes |-> st.probes, starts |-> st.starts,
             cmd |-> NoCmd ]
      ELSE [ next |-> "mix", probes |-> st.probes, starts |-> st.starts,
             cmd |-> MixCmd(st) ]

\* What an ffmpeg invocation can do: not start at all (the executable cannot
\* be run: no file is touched, and rc is no exit status), or run and end with
\* an exit status, a failed invocation leaving a partial output file behind or
\* not.  decodable: what it wrote to stderr is valid text in the locale
\* encoding.
Outcomes ==
    { o \in [started : BOOLEAN, rc : ExitCodes, partial : BOOLEAN,
              decodable : BOOLEAN] :
        /\ o.rc = 0 => ~o.partial
        /\ ~o.started => (o.rc # 0 /\ ~o.partial /\ o.decodable) }

\* Whether subprocess.run(cmd, capture_output=True[, text=True]) raises:
\* OSError when the executable cannot be started, UnicodeDecodeError after the
\* child has ended when text=True and its output cannot be decoded.
Raises(o, text) == ~o.started \/ (text /\ ~o.decodable)

\* The output file after one ffmpeg -y invocation.
RunEncoder(file, o) ==
    IF ~o.started THEN file
    ELSE IF o.rc = 0 THEN "fresh"
    ELSE IF o.partial THEN "partial"
    ELSE file

Exists(file) == file # "absent"

\* if result.returncode != 0: fall back to the passthrough; else return.
AfterMix(rc) == IF rc # 0 THEN "passthrough" ELSE "append"

\* valid_videos = [v for v in composed_videos if v and Path(v).exists()]
IsValid(disk, v) == v # None /\ Exists(disk[v])

RECURSIVE Filter(_, _)
Filter(disk, vs) ==
    IF vs = <<>> THEN <<>>
    ELSE (IF IsValid(disk, Head(vs)) THEN <<Head(vs)>> ELSE <<>>)
         \o Filter(disk, Tail(vs))

\* The places where merge_scenes can be left by an exception, given what it
\* kept and what the concat encode does: the print of line 138; the open of
\* line 143; the print of line 159; the print of line 163 after a non-zero
\* exit status; the prints of lines 168-169 after exit status 0.
MergeFaults(valid_videos, o) ==
    IF valid_videos = <<>> THEN {"none", "print_138"}
    ELSE {"none", "open_143", "print_159"}
         \cup (IF Raises(o, TRUE) THEN {}
               ELSE IF o.rc # 0 THEN {"print_163"} ELSE {"print_168"})

\* merge_scenes(composed_videos); o is what the concat encode of line 160
\* does, fault the place where an exception is raised, if any.  valid is the
\* list line 135 keeps, concat what the manifest holds, returned is FALSE when
\* the call is left by an exception.
merge_scenes(videos, disk, o, fault) ==
    LET valid_videos == Filter(disk, videos) IN
    IF valid_videos = <<>>
    THEN [ returned |-> fault = "none", ret |-> "None", valid |-> valid_videos,
           wrote |-> FALSE, concat |-> <<>>, encodes |-> <<>>, raised |-> fault ]
    ELSE IF fault = "open_143"
    THEN [ returned |-> FALSE, ret |-> "None", valid |-> valid_videos,
           wrote |-> FALSE, concat |-> <<>>, encodes |-> <<>>, raised |-> fault ]
    ELSE IF fault = "print_159"
    THEN [ returned |-> FALSE, ret |-> "None", valid |-> valid_videos,
           wrote |-> TRUE, concat |-> valid_videos, encodes |-> <<>>,
           raised |-> fault ]
    ELSE
      LET raised == IF Raises(o, TRUE) THEN "run_160" ELSE fault IN
      [ returned |-> raised = "none",
        ret      |-> IF raised = "none" /\ o.rc = 0 THEN FinalReelPath ELSE "None",
        valid    |-> valid_videos,
        wrote    |-> TRUE,
        concat   |-> valid_videos,
        encodes  |-> << [started |-> o.started, rc |-> o.rc,
                         raised |-> Raises(o, TRUE)] >>,
        raised   |-> raised ]

VARIABLES
    video_paths,      \* per scene: does Path(video_path).exists() hold
    disk,             \* per scene: the state of scene_{id}_composed.mp4
    pc,               \* where main is
    composed_videos,  \* main's list
    last,             \* the compose_scene call in progress or just returned
    calls,            \* the calls main has made, in order
    merged,           \* the result of merge_scenes
    sidecar_written,  \* outputs/final_reel_path.txt was written by this run
    exit_status,      \* the exit status of the process, once pc = "done"
    uncaught          \* the process was ended by an exception nothing catches

vars == << video_paths, disk, pc, composed_videos, last, calls, merged,
           sidecar_written, exit_status, uncaught >>

NoCall ==
    [ scene_id |-> 0, video_exists |-> FALSE, audio_files |-> <<>>,
      before |-> "absent", ret |-> None, returned |-> FALSE, raised |-> "none",
      probes |-> <<>>, starts |-> <<>>, cmd |-> NoCmd, encodes |-> <<>> ]

NotMerged ==
    [ returned |-> FALSE, ret |-> "None", valid |-> <<>>, wrote |-> FALSE,
      concat |-> <<>>, encodes |-> <<>>, raised |-> "none" ]

\* The process starts: the videos listed for the run and what is on disk at
\* the composed paths.
Init ==
    /\ \E n \in 0..MaxScenes :
          /\ video_paths \in [1..n -> BOOLEAN]
          /\ disk \in [1..n -> {"absent", "stale"}]
    /\ pc = "load"
    /\ composed_videos = <<>>
    /\ last = NoCall
    /\ calls = <<>>
    /\ merged = NotMerged
    /\ sidecar_written = FALSE
    /\ exit_status = 0
    /\ uncaught = FALSE

\* The exit status of the process: the one the run ends with, or 120 when the
\* interpreter cannot flush the buffered stdout at exit.
ExitStatus(status, flushed) == IF flushed THEN status ELSE 120

\* An exception leaves main: traceback, exit status 1.
Traceback ==
    /\ pc' = "done"
    /\ \E flushed \in BOOLEAN : exit_status' = ExitStatus(1, flushed)
    /\ uncaught' = TRUE

\* The places where the import of the module can raise: the mkdir calls of
\* lines 20-21.
ImportFaults == {"mkdir_20", "mkdir_21"}

\* The places where main can raise before its loop: the prints of lines
\* 177-179 and 199, reading and parsing the two JSON files (lines 184, 192),
\* the glob of line 187, a scene set without "scene_id" or "audio_files"
\* (line 197).
LoadFaults ==
    {"none", "print_177", "read_184", "glob_187", "read_192", "key_197", "print_199"}

\* Lines 14-21 and 174-202: the directories are made, the banner is printed,
\* the inputs are loaded and composed_videos starts empty.
Load ==
    /\ pc = "load"
    /\ \E fault \in ImportFaults \cup LoadFaults :
          IF fault = "none"
          THEN pc' = "compose" /\ UNCHANGED << exit_status, uncaught >>
          ELSE Traceback
    /\ UNCHANGED << video_paths, disk, composed_videos, last, calls, merged,
                    sidecar_written >>

\* The for loop of main (line 203) has no more videos to visit.
LoopDone(composed, videos) == Len(composed) = Len(videos)

\* The ways compose_scene can be left by an exception before its first
\* encode, each with what the call has done by then.  For a video that is not
\* an existing file: Path(video_path).exists() of line 45 (an entry that is no
\* string, a path too long) and the warning of line 46.  For a clip that is
\* not an existing file: audio_info.get of line 70 (an entry that is no
\* mapping) and Path(audio_path).exists() of line 71 (a path that is no
\* string or too long), after the loop has handled the clips before it.
\* Before the mix encode: the print of line 112.
ComposeFaults(video_exists, audio_files) ==
    LET plan == ComposePlan(video_exists, audio_files) IN
    IF ~VideoFound(video_exists)
    THEN { [ raised |-> f, probes |-> <<>>, starts |-> <<>>, cmd |-> NoCmd ] :
             f \in {"exists_45", "print_46"} }
    ELSE { [ raised |-> f,
             probes |-> Loop(SubSeq(audio_files, 1, k - 1), 0, InitLoop).probes,
             starts |-> Loop(SubSeq(audio_files, 1, k - 1), 0, InitLoop).starts,
             cmd    |-> NoCmd ] :
             f \in {"get_70", "exists_71"},
             k \in { n \in 1..Len(audio_files) : ~audio_files[n].exists } }
         \cup (IF plan.next = "mix"
               THEN { [ raised |-> "print_112", probes |-> plan.probes,
                        starts |-> plan.starts, cmd |-> plan.cmd ] }
               ELSE {})

\* main calls compose_scene for the next scene (lines 203-208), or the print
\* of line 207 raises; compose_scene runs up to its first external encode
\* (lines 43-112), or is left by an exception.
ComposeBegin ==
    /\ pc = "compose"
    /\ ~LoopDone(composed_videos, video_paths)
    /\ \E audio_files \in ClipLists :
          LET idx      == Len(composed_videos)
              scene_id == idx + 1
              plan     == ComposePlan(video_paths[idx + 1], audio_files)
              call     == [ scene_id |-> scene_id,
                            video_exists |-> video_paths[idx + 1],
                            audio_files |-> audio_files,
                            before |-> disk[scene_id],
                            ret |-> None,
                            returned |-> plan.next = "append",
                            raised |-> "none",
                            probes |-> plan.probes,
                            starts |-> plan.starts,
                            cmd |-> plan.cmd,
                            encodes |-> <<>> ]
          IN  \/ /\ Traceback
                 /\ UNCHANGED << last, calls >>
              \/ /\ last' = call
                 /\ calls' = Append(calls, [fn |-> "compose_scene", arg |-> scene_id])
                 /\ pc' = plan.next
                 /\ UNCHANGED << exit_status, uncaught >>
              \/ /\ \E f \in ComposeFaults(video_paths[idx + 1], audio_files) :
                       last' = [ call EXCEPT !.returned = FALSE,
                                             !.raised = f.raised,
                                             !.probes = f.probes,
                                             !.starts = f.starts,
                                             !.cmd = f.cmd ]
                 /\ calls' = Append(calls, [fn |-> "compose_scene", arg |-> scene_id])
                 /\ Traceback
    /\ UNCHANGED << video_paths, disk, composed_videos, merged, sidecar_written >>

\* The mix encode (lines 113-116, 124).  ffmpeg cannot succeed on a graph that
\* is not well formed.  subprocess.run raises, or returns; after a non-zero
\* exit status the print of line 116 can raise before the retry.
RunMix ==
    /\ pc = "mix"
    /\ \E o \in Outcomes, fault \in {"none", "print_116"} :
          LET raised == IF Raises(o, TRUE) THEN "run_113" ELSE fault IN
          /\ o.rc = 0 => WellFormed(last.cmd)
          /\ fault = "print_116" => (~Raises(o, TRUE) /\ o.rc # 0)
          /\ disk' = [disk EXCEPT ![last.scene_id] = RunEncoder(@, o)]
          /\ last' = [ last EXCEPT
                         !.encodes = Append(@, [mode |-> "mix", started |-> o.started,
                                                rc |-> o.rc,
                                                raised |-> Raises(o, TRUE)]),
                         !.raised = raised,
                         !.returned = (raised = "none" /\ AfterMix(o.rc) = "append"),
                         !.ret = IF raised = "none" /\ AfterMix(o.rc) = "append"
                                 THEN ComposedPath(last.scene_id) ELSE None ]
          /\ IF raised # "none"
             THEN Traceback
             ELSE pc' = AfterMix(o.rc) /\ UNCHANGED << exit_status, uncaught >>
    /\ UNCHANGED << video_paths, composed_videos, calls, merged, sidecar_written >>

\* The video-only passthrough (lines 51-56, 86-91, 118-124): its output is
\* not decoded and its exit status is not read.
RunPassthrough ==
    /\ pc = "passthrough"
    /\ \E o \in Outcomes :
          /\ disk' = [disk EXCEPT ![last.scene_id] = RunEncoder(@, o)]
          /\ last' = [ last EXCEPT
                         !.encodes = Append(@, [mode |-> "passthrough",
                                                started |-> o.started, rc |-> o.rc,
                                                raised |-> Raises(o, FALSE)]),
                         !.raised = IF Raises(o, FALSE) THEN "run_passthrough"
                                    ELSE "none",
                         !.returned = ~Raises(o, FALSE),
                         !.ret = IF Raises(o, FALSE) THEN None
                                 ELSE ComposedPath(last.scene_id) ]
          /\ IF Raises(o, FALSE)
             THEN Traceback
             ELSE pc' = "append" /\ UNCHANGED << exit_status, uncaught >>
    /\ UNCHANGED << video_paths, composed_videos, calls, merged, sidecar_written >>

\* composed_videos.append(composed)  (line 209)
AppendComposed ==
    /\ pc = "append"
    /\ composed_videos' = Append(composed_videos, last.ret)
    /\ last' = NoCall
    /\ pc' = "compose"
    /\ UNCHANGED << video_paths, disk, calls, merged, sidecar_written, exit_status,
                    uncaught >>

\* final_reel = merge_scenes(composed_videos)  (line 212).
MergeScenes ==
    /\ pc = "compose"
    /\ LoopDone(composed_videos, video_paths)
    /\ \E o \in Outcomes :
          /\ ~o.partial
          /\ \E fault \in MergeFaults(Filter(disk, composed_videos), o) :
                merged' = merge_scenes(composed_videos, disk, o, fault)
          /\ IF merged'.returned
             THEN pc' = "finish" /\ UNCHANGED << exit_status, uncaught >>
             ELSE Traceback
    /\ calls' = Append(calls, [fn |-> "merge_scenes", arg |-> Len(composed_videos)])
    /\ UNCHANGED << video_paths, disk, composed_videos, last, sidecar_written >>

\* Whether main takes the success branch of line 214.
Succeeded(final_reel) == final_reel # "None"

\* The places where lines 214-220 can raise: write_text of line 216 and the
\* print of line 217 on success, the print of line 219 otherwise.
FinishFaults(final_reel) ==
    IF Succeeded(final_reel) THEN {"none", "write_216", "print_217"}
    ELSE {"none", "print_219"}

\* Lines 214-220: the sidecar and a message on success, a message and
\* sys.exit(1) otherwise.
Finish ==
    /\ pc = "finish"
    /\ \E fault \in FinishFaults(merged.ret) :
          /\ sidecar_written' = (Succeeded(merged.ret) /\ fault # "write_216")
          /\ \E flushed \in BOOLEAN :
                exit_status' =
                  ExitStatus(IF Succeeded(merged.ret) /\ fault = "none" THEN 0 ELSE 1,
                             flushed)
          /\ uncaught' = (fault # "none")
    /\ pc' = "done"
    /\ UNCHANGED << video_paths, disk, composed_videos, last, calls, merged >>

Next ==
    \/ Load
    \/ ComposeBegin
    \/ RunMix
    \/ RunPassthrough
    \/ AppendComposed
    \/ MergeScenes
    \/ Finish

Spec == Init /\ [][Next]_vars

(***************************************************************************)
(* Properties.                                                             *)
(***************************************************************************)

\* compose_scene is running or has just returned.
InScene == pc \in {"mix", "passthrough", "append"}
\* The compose_scene call in last has ended: it returned, or an exception left it.
ComposeEnded == last.scene_id # 0 /\ pc \in {"append", "done"}
\* merge_scenes has been called and has ended.
AfterMerge == calls # <<>> /\ calls[Len(calls)].fn = "merge_scenes"
\* merge_scenes has returned None.
ReturnedNone == merged.returned /\ merged.ret = "None"
\* merge_scenes has returned a path.
ReturnedPath == merged.returned /\ merged.ret # "None"

\* The clips of a dialogue list whose file exists, in order.
Scheduled(audio_files) == SelectSeq(audio_files, LAMBDA c : c.exists)
\* The delay each delay operation applies, in milliseconds.
Delays(filter_parts) == [ k \in 1..Len(filter_parts) |-> filter_parts[k].delay ]

\* The positions of composed_videos that hold a path of an existing file.
ValidIdx ==
    { i \in 1..Len(composed_videos) :
        composed_videos[i] # None /\ disk[composed_videos[i]] # "absent" }
\* The k-th smallest member of a set of numbers.
Kth(S, k) == CHOOSE x \in S : Cardinality({ y \in S : y <= x }) = k

\* C1: merge_scenes returns None without writing a manifest or running the
\* encoder when no entry is a path of an existing file; otherwise it writes a
\* manifest that lists exactly the non-None existing entries, once each, in
\* input order, and when the encoder ends with exit status 0 it returns the
\* fixed final-reel path.
C1_MergeContract ==
    AfterMerge =>
      IF ValidIdx = {}
      THEN ReturnedNone /\ ~merged.wrote /\ merged.encodes = <<>>
      ELSE /\ merged.wrote
           /\ merged.concat =
                [ k \in 1..Cardinality(ValidIdx) |-> composed_videos[Kth(ValidIdx, k)] ]
           /\ Len(merged.encodes) <= 1
           /\ (merged.encodes # <<>> /\ merged.encodes[1].rc = 0) =>
                 (merged.returned /\ merged.ret = FinalReelPath)

\* C2: a compose_scene call for a scene whose video does not exist returns
\* None with no external invocation and nothing written, and no entry of the
\* list merge_scenes keeps is that scene's path whatever is on disk; videos
\* [exists, missing, exists] with both outputs on disk give the list
\* [composed(1), composed(3)].
C2_MissingVideoDropped ==
    /\ (ComposeEnded /\ ~last.video_exists) =>
          /\ last.returned
          /\ last.ret = None
          /\ last.encodes = <<>>
          /\ last.probes = <<>>
          /\ disk[last.scene_id] = last.before
    /\ AfterMerge =>
          \A i \in 1..Len(video_paths) :
             ~video_paths[i] =>
                \A k \in 1..Len(merged.valid) : merged.valid[k] # ComposedPath(i)
    /\ ( /\ AfterMerge
         /\ video_paths = <<TRUE, FALSE, TRUE>>
         /\ Exists(disk[1]) /\ Exists(disk[3]) ) =>
          merged.valid = << ComposedPath(1), ComposedPath(3) >>

\* C3: with an existing video and no dialogue file that exists, compose_scene
\* runs the passthrough alone, returns the composed path, and the composed
\* file exists when it returns.
C3_PassthroughOutputExists ==
    ( /\ pc = "append"
      /\ last.video_exists
      /\ \A i \in 1..Len(last.audio_files) : ~last.audio_files[i].exists ) =>
        /\ Len(last.encodes) = 1
        /\ last.encodes[1].mode = "passthrough"
        /\ last.ret = ComposedPath(last.scene_id)
        /\ Exists(disk[last.scene_id])

\* The mix encode of the call in last ran and ended with a non-zero exit status.
MixFailed ==
    /\ last.encodes # <<>>
    /\ last.encodes[1].mode = "mix"
    /\ last.encodes[1].started
    /\ last.encodes[1].rc # 0

\* C4: whenever the mix encode has ended with a non-zero exit status, the
\* compose_scene call ends having run the passthrough once, and with the
\* composed path as its result, never None.
C4_MixFailureFallsBack ==
    (ComposeEnded /\ MixFailed) =>
       /\ last.video_exists
       /\ Len(last.encodes) = 2
       /\ last.encodes[2].mode = "passthrough"
       /\ last.encodes[2].started
       /\ last.returned
       /\ last.ret = ComposedPath(last.scene_id)
       /\ last.ret # None

\* C5 as stated: the delay of the first scheduled clip is the lead-in, delays
\* strictly increase, and consecutive delays differ by at least the probed
\* duration of the earlier clip plus the gap.
C5_OffsetsAsStated ==
    (InScene /\ last.cmd # NoCmd) =>
      LET f == last.cmd.filter_parts
          d == Scheduled(last.audio_files)
      IN  /\ f[1].delay * TicksPerMs = LeadIn
          /\ \A k \in 1..(Len(f) - 1) :
                /\ f[k + 1].delay > f[k].delay
                /\ (f[k + 1].delay - f[k].delay) * TicksPerMs
                      >= get_media_duration(d[k]) + Gap

\* C5 amended: the cursor starts at the lead-in and advances by exactly the
\* probed duration plus the gap per scheduled clip; each delay is the cursor
\* truncated to whole milliseconds, so delays strictly increase and consecutive
\* delays differ by at least duration + gap - 1 ms.
C5_OffsetsUpToTruncation ==
    (InScene /\ last.cmd # NoCmd) =>
      LET f == last.cmd.filter_parts
          d == Scheduled(last.audio_files)
          c == last.starts
      IN  /\ Len(f) = Len(d) /\ Len(c) = Len(d)
          /\ c[1] = LeadIn
          /\ f[1].delay * TicksPerMs = LeadIn
          /\ \A k \in 1..Len(f) :
                /\ f[k].delay * TicksPerMs <= c[k]
                /\ c[k] < (f[k].delay + 1) * TicksPerMs
          /\ \A k \in 1..(Len(f) - 1) :
                /\ c[k + 1] > c[k]
                /\ c[k + 1] - c[k] >= get_media_duration(d[k]) + Gap
                /\ f[k + 1].delay > f[k].delay
                /\ (f[k + 1].delay - f[k].delay) * TicksPerMs
                      >= get_media_duration(d[k]) + Gap - TicksPerMs

\* Durations 2.0 s and 3.0 s: delays 200 ms and 2500 ms.
C5_Witness ==
    /\ pc = "mix"
    /\ Len(last.audio_files) = 2
    /\ last.audio_files[1] = [exists |-> TRUE, probe |-> 20000]
    /\ last.audio_files[2] = [exists |-> TRUE, probe |-> 30000]
    /\ Delays(last.cmd.filter_parts) = <<200, 2500>>

\* C6: the mix graph has one delay operation per existing clip, the k-th of
\* them reads input k (the k-th file added after the video), and amix consumes
\* exactly the labels the delay operations produce.
C6_GraphReadsTheClips ==
    (InScene /\ last.cmd # NoCmd) =>
      LET f == last.cmd.filter_parts IN
      /\ Len(f) = Len(Scheduled(last.audio_files))
      /\ \A k \in 1..Len(f) :
            /\ f[k].src = k
            /\ last.cmd.audio_inputs[f[k].src + 1] = AudioInput(f[k].out)
      /\ { f[k].out : k \in 1..Len(f) }
            = { last.cmd.audio_labels[j] : j \in 1..Len(last.cmd.audio_labels) }

\* C7: in every run that has ended, the sidecar was written exactly when
\* merge_scenes returned a path, and the exit status is non-zero exactly when
\* merge_scenes returned None; the merge encode runs at most once.
C7_SidecarAndExit ==
    /\ pc # "done" => ~sidecar_written
    /\ pc = "done" =>
          /\ sidecar_written <=> ReturnedPath
          /\ exit_status # 0 <=> ReturnedNone
    /\ Len(merged.encodes) <= 1

\* The calls of a whole run over the videos given.
ExpectedCalls ==
    [ k \in 1..Len(video_paths) |-> [fn |-> "compose_scene", arg |-> k] ]
      \o << [fn |-> "merge_scenes", arg |-> Len(video_paths)] >>

\* C8: main calls compose_scene once per scene in ascending scene_id order,
\* one call at a time; whatever happens in a scene the run goes on, so a run
\* that has ended has composed every scene and then called merge_scenes once.
C8_CallOrder ==
    /\ Len(calls) <= Len(ExpectedCalls)
    /\ calls = SubSeq(ExpectedCalls, 1, Len(calls))
    /\ InScene => Len(calls) = Len(composed_videos) + 1
    /\ pc = "compose" => Len(calls) = Len(composed_videos)
    /\ pc \in {"finish", "done"} =>
          /\ calls = ExpectedCalls
          /\ Len(composed_videos) = Len(video_paths)

\* C9: the cursor values and delays given to the existing clips are those the
\* loop gives when the missing clips are removed from the list first, and only
\* existing clips are probed; a call that an exception has left had given the
\* clips it had reached those same cursor values.
C9_MissingClipsTakeNoSlot ==
    /\ (InScene /\ last.video_exists /\ last.audio_files # <<>>) =>
          LET ref == Loop(Scheduled(last.audio_files), 0, InitLoop) IN
          /\ last.starts = ref.starts
          /\ Delays(last.cmd.filter_parts) = Delays(ref.filter_parts)
          /\ Len(last.probes) = Len(ref.probes)
          /\ \A k \in 1..Len(last.probes) :
                last.probes[k].kind = "audio" =>
                   last.audio_files[last.probes[k].idx + 1].exists
    /\ (ComposeEnded /\ last.video_exists /\ last.audio_files # <<>>) =>
          LET ref == Loop(Scheduled(last.audio_files), 0, InitLoop) IN
          /\ Len(last.starts) <= Len(ref.starts)
          /\ last.starts = SubSeq(ref.starts, 1, Len(last.starts))
          /\ \A k \in 1..Len(last.probes) :
                last.probes[k].kind = "audio" =>
                   last.audio_files[last.probes[k].idx + 1].exists

\* A missing clip before an existing one: the existing clip starts at the lead-in.
C9_Witness ==
    /\ pc = "mix"
    /\ Len(last.audio_files) = 2
    /\ ~last.audio_files[1].exists
    /\ last.audio_files[2].exists
    /\ last.starts = <<LeadIn>>

\* C10: every file the manifest lists was written in this run by an ffmpeg
\* invocation that ended with exit status 0.
C10_OnlyFreshFilesMerged ==
    AfterMerge =>
      \A k \in 1..Len(merged.concat) : disk[merged.concat[k]] = "fresh"

====
